---------------------------- MODULE Spec2Model ----------------------------
(***************************************************************************)
(* Headway analysis (src/analyze.py): the per-vehicle trip reconstruction  *)
(* of processAVL, the stop matching of getLastBusStop, the pass-time       *)
(* interpolation and the end-of-file flush of the open trips.              *)
(*                                                                         *)
(* Geometry.  The route projector (PostGIS) and haversine are external to  *)
(* the program; they are modelled in metres on a loop: a position is       *)
(* <<lat, lng>> with lat its travelled distance along the route            *)
(* (0..RouteEndDist, the two ends being the same place) and |lng| its      *)
(* distance from the route; the distance between two positions is          *)
(* Euclidean in (shorter way round the loop, difference of lng).           *)
(*                                                                         *)
(* Time.  A datetime or a timedelta is <<s, us>>: whole seconds (since     *)
(* midnight for a datetime; floor for a negative timedelta) and            *)
(* microseconds 0..999999, the resolution of Python's datetime.            *)
(***************************************************************************)
EXTENDS Integers, Sequences, FiniteSets, TLC

VARIABLES
    busStops,            \* the stop table handed to processAVL: id -> stop
    rowsRead,            \* number of rows of the AVL file consumed so far
    avlData,             \* the loop variables of the last row read ({} before the first)
    lastRegBusPosition,  \* busID -> {} or {avl}: last registered position
    lastRegBusStop,      \* busID -> {} or {stop}: last registered bus stop
    trips,               \* busID -> [x, d, y, p]: the open trip of the bus
    tripKeys,            \* the keys of trips in insertion order
    rawHeadway,          \* stop id -> sequence of <<busID, pass time>>
    todo,                \* the buses the end-of-file loop has still to visit
    feed,                \* what the rows of the AVL file are drawn from
    processedHeadway,    \* main: stop id -> headway samples ({} before deriveHeadway)
    output,              \* main: the files written and the statistics printed
    pc                   \* "scan" | "flush" | "done" | "derived" | "finished" | "error"

vars == <<busStops, rowsRead, avlData, lastRegBusPosition, lastRegBusStop,
          trips, tripKeys, rawHeadway, todo, feed, processedHeadway, output, pc>>

----------------------------------------------------------------------------
(* Bounds of the model and constants of the program *)

MaxRows == 3

\* click defaults of main
line == 400
start == 5
end == 12

\* literals of processAVL
RouteEndId == 37
RouteEndDist == 14525
CurveStopA == 35
CurveStopB == 36
OutlierDist == 250
TermRadius == 100
StopRadius == 15
IdleSeconds == 120
GapSeconds == 300
ShortBuffer == 5
MinFlushLen == 3
NearEnd == 3

OutOfService == "FORA DE SERVICO"

----------------------------------------------------------------------------
(* datetime / timedelta arithmetic *)

Million == 1000 * 1000

Norm(s, us) == <<s + (us \div Million), us % Million>>

TAdd(a, b) == Norm(a[1] + b[1], a[2] + b[2])

TSub(a, b) == Norm(a[1] - b[1], a[2] - b[2])

TNeg(a) == Norm(-a[1], -a[2])

TLess(a, b) == a[1] < b[1] \/ (a[1] = b[1] /\ a[2] < b[2])

TLeq(a, b) == a = b \/ TLess(a, b)

\* timedelta.total_seconds() > n, for a whole number n
LongerThan(delta, n) == TLess(<<n, 0>>, delta)

\* datetime.hour
Hour(t) == (t[1] \div 3600) % 24

Abs(n) == IF n < 0 THEN -n ELSE n

Sgn(n) == IF n < 0 THEN -1 ELSE IF n > 0 THEN 1 ELSE 0

----------------------------------------------------------------------------
(* float arithmetic: a natural number is held as six limbs of 15 bits,      *)
(* the least significant first; a positive float is a mantissa of Precision *)
(* bits m and an exponent e, of value m * 2^e, and 0.0 is Float(BigOf(0))   *)

Limb == 32768
Precision == 53

\* six numbers, each below 2^30 in size, brought to limbs by carrying
Ripple(v) ==
    LET x2 == v[2] + (v[1] \div Limb)
        x3 == v[3] + (x2 \div Limb)
        x4 == v[4] + (x3 \div Limb)
        x5 == v[5] + (x4 \div Limb)
        x6 == v[6] + (x5 \div Limb)
    IN  <<v[1] % Limb, x2 % Limb, x3 % Limb, x4 % Limb, x5 % Limb, x6 % Limb>>

\* n < 2^31 as limbs
BigOf(n) == Ripple(<<n, 0, 0, 0, 0, 0>>)

BigAdd(a, b) ==
    Ripple(<<a[1] + b[1], a[2] + b[2], a[3] + b[3], a[4] + b[4], a[5] + b[5], a[6] + b[6]>>)

\* a - b, for a >= b
BigSub(a, b) ==
    Ripple(<<a[1] - b[1], a[2] - b[2], a[3] - b[3], a[4] - b[4], a[5] - b[5], a[6] - b[6]>>)

\* -1, 0 or 1 as a is below, equal to or above b on the limbs i..1
RECURSIVE BigCmp(_, _, _)
BigCmp(a, b, i) ==
    IF i = 0 THEN 0
    ELSE IF a[i] # b[i] THEN (IF a[i] < b[i] THEN -1 ELSE 1)
    ELSE BigCmp(a, b, i - 1)

\* a * k, for k < Limb
BigTimes(a, k) == Ripple(<<a[1] * k, a[2] * k, a[3] * k, a[4] * k, a[5] * k, a[6] * k>>)

\* limb j of a, and 0 beyond the limbs
LimbAt(a, j) == IF j \in 1..6 THEN a[j] ELSE 0

\* a * 2^k
ShiftLeft(a, k) ==
    LET w == k \div 15
    IN  BigTimes(<<LimbAt(a, 1 - w), LimbAt(a, 2 - w), LimbAt(a, 3 - w),
                   LimbAt(a, 4 - w), LimbAt(a, 5 - w), LimbAt(a, 6 - w)>>, 2 ^ (k % 15))

\* a \div 2^k
ShiftRight(a, k) ==
    LET w    == k \div 15
        lo   == 2 ^ (k % 15)
        hi   == Limb \div lo
        L(j) == (LimbAt(a, j + w) \div lo) + (LimbAt(a, j + w + 1) % lo) * hi
    IN  <<L(1), L(2), L(3), L(4), L(5), L(6)>>

\* the number of bits of a
BitLength(a) ==
    IF a = <<0, 0, 0, 0, 0, 0>> THEN 0
    ELSE LET top == CHOOSE i \in 1..6 : a[i] # 0 /\ \A j \in (i + 1)..6 : a[j] = 0
         IN  15 * (top - 1) + (CHOOSE b \in 1..15 : 2 ^ (b - 1) <= a[top] /\ a[top] < 2 ^ b)

\* a (with something more below its last bit, if sticky) rounded to Precision
\* bits, a half to even: the bits kept and the number of bits dropped
RoundBits(a, sticky) ==
    LET s    == IF BitLength(a) > Precision THEN BitLength(a) - Precision ELSE 0
        kept == ShiftRight(a, s)
        c    == BigCmp(BigTimes(BigSub(a, ShiftLeft(kept, s)), 2), ShiftLeft(BigOf(1), s), 6)
        up   == c > 0 \/ (c = 0 /\ (sticky \/ kept[1] % 2 = 1))
    IN  [m |-> IF up THEN BigAdd(kept, BigOf(1)) ELSE kept, s |-> s]

\* a whole number a < 2^53 as a float
Float(a) == [m |-> ShiftLeft(a, Precision - BitLength(a)), e |-> BitLength(a) - Precision]

\* k more digits, of 15 bits each, of a quotient by d, a number of exactly
\* 60 bits: qr holds the digits so far, a limb each, and what is left to
\* divide, which is below 2^15 * d.  The leading limbs of the two give the
\* next digit or up to 2 more; what is left after it goes on times 2^15.
RECURSIVE DivDigits(_, _, _)
DivDigits(qr, d, k) ==
    IF k = 0 THEN qr
    ELSE LET q     == qr[1]
             r     == qr[2]
             most  == (r[5] * Limb + r[4]) \div d[4]
             est   == IF most < Limb THEN most ELSE Limb - 1
             digit == est - Cardinality({j \in 0..1 :
                                           est > j /\ BigCmp(BigTimes(d, est - j), r, 6) > 0})
         IN  DivDigits(<<<<digit, q[1], q[2], q[3], q[4], q[5]>>,
                         ShiftLeft(BigSub(r, BigTimes(d, digit)), 15)>>, d, k - 1)

\* x / y of two floats, x >= 0 and y > 0, rounded to the nearest float (a
\* half to even): the quotient of the mantissas to 60 bits after the point,
\* five digits of which the first is 0 or 1, rounded
FloatDiv(x, y) ==
    IF x.m = <<0, 0, 0, 0, 0, 0>> THEN x
    ELSE CHOOSE f \in {IF BitLength(Q.m) > Precision
                          THEN [m |-> ShiftRight(Q.m, 1), e |-> x.e - y.e - 60 + Q.s + 1]
                          ELSE [m |-> Q.m, e |-> x.e - y.e - 60 + Q.s] :
                       Q \in {RoundBits(qr[1], qr[2] # <<0, 0, 0, 0, 0, 0>>) :
                                 qr \in {DivDigits(<<<<0, 0, 0, 0, 0, 0>>, ShiftLeft(x.m, 7)>>,
                                                    ShiftLeft(y.m, 7), 5)}}} : TRUE

\* x + y of two floats, x >= 0 and y >= 0, rounded to the nearest float (a
\* half to even): the mantissa of the higher exponent is moved up to 36 bits
\* to the left, the other one to the right for the rest of the difference,
\* and the bits it loses there are the sticky ones
FloatAdd(x, y) ==
    LET hi   == IF x.e >= y.e THEN x ELSE y
        lo   == IF x.e >= y.e THEN y ELSE x
        up   == IF hi.e - lo.e < 36 THEN hi.e - lo.e ELSE 36
        down == hi.e - lo.e - up
    IN  IF x.m = <<0, 0, 0, 0, 0, 0>> THEN y
        ELSE IF y.m = <<0, 0, 0, 0, 0, 0>> THEN x
        ELSE CHOOSE f \in {IF BitLength(S.m) > Precision
                              THEN [m |-> ShiftRight(S.m, 1), e |-> hi.e - up + S.s + 1]
                              ELSE [m |-> S.m, e |-> hi.e - up + S.s] :
                           S \in {RoundBits(BigAdd(ShiftLeft(hi.m, up), low),
                                            ShiftLeft(low, down) # lo.m) :
                                     low \in {ShiftRight(lo.m, down)}}} : TRUE

\* timedelta.total_seconds(), for t >= <<0, 0>>: the microseconds divided by 10^6
total_seconds(t) ==
    FloatDiv(Float(BigAdd(BigTimes(BigTimes(BigOf(t[1]), 1000), 1000), BigOf(t[2]))),
             Float(BigOf(Million)))

\* the microseconds of a fraction of a second P.m * 2^(P.s - k): the whole
\* ones, and one more if what is left rounds up (a half to the even one);
\* none when P.m has fewer than k - P.s bits, which is less than a half
Microseconds(P, k) ==
    LET us == ShiftRight(P.m, k - P.s)
        c  == BigCmp(BigTimes(BigSub(P.m, ShiftLeft(us, k - P.s)), 2),
                     ShiftLeft(BigOf(1), k - P.s), 6)
    IN  IF k - P.s > BitLength(P.m) THEN 0
        ELSE us[1] + Limb * us[2] + (IF c > 0 \/ (c = 0 /\ us[1] % 2 = 1) THEN 1 ELSE 0)

\* timedelta(seconds = q), for a float 0 <= q < 2^31: the whole seconds are
\* taken exactly, the fraction is multiplied by 10^6 as a float, and what is
\* left below the microsecond is rounded; a float below 2^-21 is less than
\* half a microsecond
timedelta(q) ==
    IF q.e <= -74 THEN <<0, 0>>
    ELSE CHOOSE r \in {Norm(w[1] + Limb * w[2] + Limb * Limb * w[3], Microseconds(P, -q.e)) :
                          w \in {ShiftRight(q.m, -q.e)},
                          P \in {RoundBits(BigTimes(BigTimes(F, 1000), 1000), FALSE) :
                                    F \in {BigSub(q.m, ShiftLeft(ShiftRight(q.m, -q.e), -q.e))}}} : TRUE

\* velocity = deltaDistance / deltaDate with deltaDate = t.total_seconds(),
\* for t # <<0, 0>>: a float, held as its sign and its size (the quotient of
\* the sizes, for floats are symmetric in the sign)
Velocity(deltaDistance, t) ==
    [sign |-> IF t[1] < 0 THEN -Sgn(deltaDistance) ELSE Sgn(deltaDistance),
     size |-> FloatDiv(Float(BigOf(Abs(deltaDistance))),
                       total_seconds(IF t[1] < 0 THEN TNeg(t) ELSE t))]

\* timedelta(seconds = dist / velocity), for velocity # 0: the quotient is a
\* float and timedelta rounds it to the microsecond, the same way for the
\* two signs
TravelTime(dist, velocity) ==
    IF Sgn(dist) * velocity.sign < 0
        THEN TNeg(timedelta(FloatDiv(Float(BigOf(Abs(dist))), velocity.size)))
        ELSE timedelta(FloatDiv(Float(BigOf(Abs(dist))), velocity.size))

----------------------------------------------------------------------------
(* The external collaborators *)

\* haversine(a, b, unit=METERS) <= r.  The route is a loop of RouteEndDist
\* metres (its last stop, RouteEndId, is its first terminal again), so the
\* along-route separation of two positions is the shorter way round.
Haversine(a, b, r) ==
    LET along == Abs(a[1] - b[1])
        dx    == IF along <= RouteEndDist - along THEN along ELSE RouteEndDist - along
        dy    == a[2] - b[2]
    IN  dx * dx + dy * dy <= r * r

\* the length of the route up to the point of it closest to (lat, lng)
getTravDistance(lat, lng) == lat

\* ST_Distance(point, route) >= 250
outlier(lat, lng) == Abs(lng) >= OutlierDist

----------------------------------------------------------------------------
(* Stop tables and the AVL rows the file may hold *)

LineDist(i) ==
    CASE i <= 33 -> 400 * (i - 1)
      [] i = 34  -> 13900
      [] i = 35  -> 13950
      [] OTHER   -> 13990

\* a 36-stop table for line 400: terminals at both ends of the stop list
LineStops ==
    [i \in 1..36 |->
        [term |-> i \in {1, 36}, id |-> i, lat |-> LineDist(i), lng |-> 0,
         dist |-> LineDist(i)]]

\* positions an AVL row may report, on the line of LineStops
AtStop1     == <<0, 0>>          \* on the first terminal
LagStop2    == <<390, 0>>        \* 10 m short of stop 2, inside its radius
AtStop6     == <<2000, 0>>       \* on stop 6
AtStop34    == <<13900, 0>>      \* on stop 34
OffStop34   == <<13900, 20>>     \* abreast of stop 34, inside terminal 36's radius
AtStop35    == <<13950, 0>>      \* on stop 35
LoopEnd     == <<14500, 0>>      \* end of the loop, inside terminal 1's radius
Garage      == <<1000, 300>>     \* off the route

Places == {AtStop1, LagStop2, AtStop6, AtStop34, OffStop34, AtStop35, LoopEnd, Garage}

\* seconds between consecutive rows of the file: the rows are in strictly
\* ascending time order
Deltas == {60, 130, 400}

\* the same with rows that repeat the time of the row before
DeltasWithTies == {0, 130, 400}

\* the time of day before the first row: 11:40:00
FirstClock == 11 * 3600 + 40 * 60

Clock == IF avlData = {} THEN feed.clock ELSE (CHOOSE r \in avlData : TRUE).date[1]

InService == "400"

\* the rows a file without a script may hold next: any bus at any place after
\* any delta, and two rows the scan filters (another line; out of service)
AnyRows ==
    {[date |-> <<Clock + dt, 0>>, line |-> line, busID |-> b,
      lat |-> pl[1], lng |-> pl[2], letreiro |-> InService] :
        b \in feed.buses, pl \in feed.places, dt \in feed.deltas}
    \cup
    {[date |-> <<Clock + 400, 0>>, line |-> l, busID |-> b,
      lat |-> Garage[1], lng |-> Garage[2], letreiro |-> s] :
        b \in feed.buses, l \in {line + 1}, s \in {InService}}
    \cup
    {[date |-> <<Clock + 400, 0>>, line |-> line, busID |-> b,
      lat |-> Garage[1], lng |-> Garage[2], letreiro |-> OutOfService] :
        b \in feed.buses}

\* the next row of a file that has a script: entry k is <<busID, place, delta>>
ScriptRows ==
    IF rowsRead < Len(feed.script)
        THEN LET e == feed.script[rowsRead + 1]
             IN  {[date |-> <<Clock + e[3], 0>>, line |-> line, busID |-> e[1],
                   lat |-> e[2][1], lng |-> e[2][2], letreiro |-> InService]}
        ELSE {}

NextRows == IF feed.script = <<>> THEN AnyRows ELSE ScriptRows

----------------------------------------------------------------------------
(* getLastBusStop *)

RECURSIVE ScanStops(_, _, _, _, _, _)
ScanStops(stops, i, lat, lng, travDistance, lastStop) ==
    IF i > Len(stops) THEN <<lastStop, FALSE>>
    ELSE LET stop == stops[i]
             here == <<stop.lat, stop.lng>>
         IN  IF stop.term /\ Haversine(<<lat, lng>>, here, TermRadius)
                THEN <<stop, TRUE>>
             ELSE IF ~stop.term /\ Haversine(<<lat, lng>>, here, StopRadius)
                THEN <<stop, FALSE>>
             ELSE IF stop.dist <= travDistance
                THEN ScanStops(stops, i + 1, lat, lng, travDistance, stop)
             ELSE ScanStops(stops, i + 1, lat, lng, travDistance, lastStop)

\* mutant: the stop is chosen by the travelled distance alone
getLastBusStopByDistance(lat, lng, travDistance, stops) ==
    LET below == {i \in 1..Len(stops) : stops[i].dist <= travDistance}
    IN  <<IF below = {} THEN stops[1]
          ELSE stops[CHOOSE i \in below : \A j \in below : j <= i], FALSE>>

\* returns <<lastStop, within>>
getLastBusStop(lat, lng, travDistance, stops) ==
    ScanStops(stops, 1, lat, lng, travDistance, stops[1])


----------------------------------------------------------------------------
(* processAVL: the variables of one turn of the loop over the rows *)

The(S) == CHOOSE v \in S : TRUE

Last(q) == q[Len(q)]

\* the avl dictionary built from a row
Avl(row) == [date |-> row.date, line |-> row.line, busID |-> row.busID,
             lat |-> row.lat, lng |-> row.lng]

\* mutant: a row of a bus that is out of service passes the filter
InWindowAnyService(row) ==
    /\ row.line = line
    /\ start <= Hour(row.date)
    /\ Hour(row.date) < end

InWindow(row) ==
    /\ row.line = line
    /\ start <= Hour(row.date)
    /\ Hour(row.date) < end
    /\ row.letreiro # OutOfService

\* mutant: the duplicate test is skipped for a bus that has no registered stop
IsDuplicateWhenTracking(row) ==
    /\ lastRegBusStop[row.busID] # {}
    /\ lastRegBusPosition[row.busID] # {}
    /\ The(lastRegBusPosition[row.busID]).lat = row.lat
    /\ The(lastRegBusPosition[row.busID]).lng = row.lng

IsDuplicate(row) ==
    /\ lastRegBusPosition[row.busID] # {}
    /\ The(lastRegBusPosition[row.busID]).lat = row.lat
    /\ The(lastRegBusPosition[row.busID]).lng = row.lng

Distance(row) == getTravDistance(row.lat, row.lng)

LastBusStop(row) == getLastBusStop(row.lat, row.lng, Distance(row), busStops)[1]

\* mutant: the previous position is that of the last row read, of any bus
PrevAVLOfLastRow(row) == Avl(The(avlData))

PrevAVL(row) == The(lastRegBusPosition[row.busID])

PrevDistance(row) == getTravDistance(PrevAVL(row).lat, PrevAVL(row).lng)

PrevStop(row) == The(lastRegBusStop[row.busID])

\* "Data muito passada": the three conditions that restart the list of the bus
IdleAtTerminal(row) ==
    /\ PrevStop(row).term
    /\ LongerThan(TSub(row.date, Last(trips[row.busID].x)), IdleSeconds)
    /\ Haversine(<<row.lat, row.lng>>, Last(trips[row.busID].p), TermRadius)

LongGap(row) ==
    /\ PrevStop(row).term
    /\ LongerThan(TSub(row.date, PrevAVL(row).date), GapSeconds)

NoProgress(row, lastBusStop) ==
    /\ Distance(row) <= PrevDistance(row)
    /\ PrevStop(row).id # lastBusStop.id
    /\ Len(trips[row.busID].x) < ShortBuffer

StaleGap(row, lastBusStop) ==
    IdleAtTerminal(row) \/ LongGap(row) \/ NoProgress(row, lastBusStop)

Wraparound(row, lastBusStop) ==
    /\ Len(trips[row.busID].x) <= 2
    /\ PrevStop(row).id > lastBusStop.id
    /\ lastBusStop.id = 1

Completion(row, lastBusStop) ==
    /\ PrevStop(row).id > lastBusStop.id
    /\ lastBusStop.id <= 2

BackwardJump(row, lastBusStop) == PrevStop(row).id > lastBusStop.id

Curvature(row, lastBusStop) ==
    /\ lastBusStop.id \in {CurveStopA, CurveStopB}
    /\ PrevStop(row).id = 1

NumTravStops(row, lastBusStop) == lastBusStop.id - PrevStop(row).id

\* mutant: the end of a trip is tested before the stale gap
BranchCompletionFirst(row) ==
    IF ~InWindow(row) THEN (IF Hour(row.date) >= end THEN "break" ELSE "skip")
    ELSE IF IsDuplicate(row) THEN "duplicate"
    ELSE IF outlier(row.lat, row.lng) THEN "outlier"
    ELSE IF lastRegBusStop[row.busID] = {} THEN "cold"
    ELSE LET lastBusStop == LastBusStop(row)
         IN  IF Wraparound(row, lastBusStop) THEN "wrap"
             ELSE IF Completion(row, lastBusStop) THEN "complete"
             ELSE IF StaleGap(row, lastBusStop) THEN "stale"
             ELSE IF BackwardJump(row, lastBusStop) THEN "back"
             ELSE IF Curvature(row, lastBusStop) THEN "curve"
             ELSE IF NumTravStops(row, lastBusStop) > 0 /\ row.date = PrevAVL(row).date
                THEN "zerodiv"
             ELSE "forward"

\* the branch of the loop body a row takes, in the order the code tests them
Branch(row) ==
    IF ~InWindow(row) THEN (IF Hour(row.date) >= end THEN "break" ELSE "skip")
    ELSE IF IsDuplicate(row) THEN "duplicate"
    ELSE IF outlier(row.lat, row.lng) THEN "outlier"
    ELSE IF lastRegBusStop[row.busID] = {} THEN "cold"
    ELSE LET lastBusStop == LastBusStop(row)
         IN  IF StaleGap(row, lastBusStop) THEN "stale"
             ELSE IF Wraparound(row, lastBusStop) THEN "wrap"
             ELSE IF Completion(row, lastBusStop) THEN "complete"
             ELSE IF BackwardJump(row, lastBusStop) THEN "back"
             ELSE IF Curvature(row, lastBusStop) THEN "curve"
             ELSE IF NumTravStops(row, lastBusStop) > 0 /\ row.date = PrevAVL(row).date
                THEN "zerodiv"
             ELSE "forward"

\* one sample list holding a single sample
Seed(date, stopId, pos) == [x |-> <<date>>, d |-> <<date>>, y |-> <<stopId>>, p |-> <<pos>>]

EmptyTrip == [x |-> <<>>, d |-> <<>>, y |-> <<>>, p |-> <<>>]

\* mutant: the first sample of a trip overwritten
OverwriteFirst(q, v) == [q EXCEPT ![1] = v]

\* the last sample of a trip overwritten
Overwrite(q, v) == [q EXCEPT ![Len(q)] = v]

\* for i in range(len(x)): rawHeadway[y[i]].append((busID, x[i]))
EventsAt(busID, xs, ys, stopId) ==
    LET idx == SelectSeq([i \in 1..Len(ys) |-> i], LAMBDA i : ys[i] = stopId)
    IN  [k \in 1..Len(idx) |-> <<busID, xs[idx[k]]>>]

Emit(rh, busID, xs, ys) ==
    [s \in DOMAIN rh |-> rh[s] \o EventsAt(busID, xs, ys, s)]

\* mutant: the pass time is always the time of the previous position
TimePassedAtPrevDate(prevDate, dist, velocity) == prevDate

\* the pass time at a stop dist metres past prevDistance: prevDate when the
\* velocity is 0
TimePassedAtBusStop(prevDate, dist, velocity) ==
    IF velocity.sign # 0
        THEN TAdd(prevDate, TravelTime(dist, velocity))
        ELSE prevDate

\* mutant: the distance to a passed stop is taken from the registered stop,
\* not from the previous registered position
PassedFromStop(row, lastBusStop) ==
    LET prevDate      == PrevAVL(row).date
        numTravStops  == NumTravStops(row, lastBusStop)
        deltaDistance == Distance(row) - PrevDistance(row)
        deltaDate     == TSub(row.date, prevDate)
        velocity      == Velocity(deltaDistance, deltaDate)
        passedStop(i) == busStops[PrevStop(row).id + i]
    IN  [x |-> [i \in 1..numTravStops |->
                  TimePassedAtBusStop(prevDate, passedStop(i).dist - PrevStop(row).dist, velocity)],
         d |-> [i \in 1..numTravStops |-> row.date],
         y |-> [i \in 1..numTravStops |-> passedStop(i).id],
         p |-> [i \in 1..numTravStops |-> <<row.lat, row.lng>>]]

\* the samples of the numTravStops stops passed between the previous
\* registered position and this row
Passed(row, lastBusStop) ==
    LET prevDate      == PrevAVL(row).date
        numTravStops  == NumTravStops(row, lastBusStop)
        deltaDistance == Distance(row) - PrevDistance(row)
        deltaDate     == TSub(row.date, prevDate)
        velocity      == Velocity(deltaDistance, deltaDate)
        passedStop(i) == busStops[PrevStop(row).id + i]
    IN  [x |-> [i \in 1..numTravStops |->
                  TimePassedAtBusStop(prevDate, passedStop(i).dist - PrevDistance(row), velocity)],
         d |-> [i \in 1..numTravStops |-> row.date],
         y |-> [i \in 1..numTravStops |-> passedStop(i).id],
         p |-> [i \in 1..numTravStops |-> <<row.lat, row.lng>>]]

\* what every turn of the loop does: one more row consumed
Read(row) ==
    /\ pc = "scan"
    /\ rowsRead < feed.limit
    /\ row \in NextRows
    /\ rowsRead' = rowsRead + 1
    /\ avlData' = {row}
    /\ UNCHANGED <<busStops, feed, processedHeadway, output>>

----------------------------------------------------------------------------
(* processAVL: the loop over the rows, one action per branch of its body *)

\* a row of another line, outside the hours or out of service, before the end hour
FilteredRow ==
    \E row \in NextRows :
        /\ Read(row)
        /\ Branch(row) = "skip"
        /\ UNCHANGED <<lastRegBusPosition, lastRegBusStop, trips, tripKeys,
                       rawHeadway, todo, pc>>

\* mutant: a row at or after the end hour is skipped and the scan goes on
BreakKeepsScanning ==
    \E row \in NextRows :
        /\ pc = "scan"
        /\ rowsRead < feed.limit
        /\ Branch(row) = "break"
        /\ rowsRead' = rowsRead + 1
        /\ avlData' = {row}
        /\ UNCHANGED <<busStops, feed, processedHeadway, output,
                       lastRegBusPosition, lastRegBusStop, trips,
                       tripKeys, rawHeadway, todo, pc>>

\* if date.hour >= end: break
BreakAtEndHour ==
    \E row \in NextRows :
        /\ pc = "scan"
        /\ rowsRead < feed.limit
        /\ Branch(row) = "break"
        /\ rowsRead' = rowsRead + 1
        /\ avlData' = {row}
        /\ pc' = "flush"
        /\ todo' = tripKeys
        /\ UNCHANGED <<busStops, feed, processedHeadway, output,
                       lastRegBusPosition, lastRegBusStop, trips,
                       tripKeys, rawHeadway>>

\* "POSICAO IDENTICA"
DuplicateRow ==
    \E row \in NextRows :
        /\ Read(row)
        /\ Branch(row) = "duplicate"
        /\ UNCHANGED <<lastRegBusPosition, lastRegBusStop, trips, tripKeys,
                       rawHeadway, todo, pc>>

\* mutant: the outlier is registered but the registered stop is kept
OutlierRowKeepsStop ==
    \E row \in NextRows :
        /\ Read(row)
        /\ Branch(row) = "outlier"
        /\ lastRegBusPosition' = [lastRegBusPosition EXCEPT ![row.busID] = {Avl(row)}]
        /\ UNCHANGED <<lastRegBusStop, trips, tripKeys, rawHeadway, todo, pc>>

OutlierRow ==
    \E row \in NextRows :
        /\ Read(row)
        /\ Branch(row) = "outlier"
        /\ lastRegBusPosition' = [lastRegBusPosition EXCEPT ![row.busID] = {Avl(row)}]
        /\ lastRegBusStop' = [lastRegBusStop EXCEPT ![row.busID] = {}]
        /\ UNCHANGED <<trips, tripKeys, rawHeadway, todo, pc>>

\* "INICIALIZANDO a lista do busID"
ColdStart ==
    \E row \in NextRows :
        /\ Read(row)
        /\ Branch(row) = "cold"
        /\ lastRegBusPosition' = [lastRegBusPosition EXCEPT ![row.busID] = {Avl(row)}]
        /\ LET lastBusStop == LastBusStop(row)
           IN  /\ lastRegBusStop' = [lastRegBusStop EXCEPT ![row.busID] = {lastBusStop}]
               /\ trips' = [trips EXCEPT ![row.busID] =
                               Seed(row.date, lastBusStop.id, <<row.lat, row.lng>>)]
        /\ tripKeys' = IF \E k \in 1..Len(tripKeys) : tripKeys[k] = row.busID
                          THEN tripKeys ELSE Append(tripKeys, row.busID)
        /\ UNCHANGED <<rawHeadway, todo, pc>>

\* "REINICIALIZANDO a lista do busID"
StaleReset ==
    \E row \in NextRows :
        /\ Read(row)
        /\ Branch(row) = "stale"
        /\ lastRegBusPosition' = [lastRegBusPosition EXCEPT ![row.busID] = {Avl(row)}]
        /\ LET lastBusStop == LastBusStop(row)
           IN  /\ lastRegBusStop' = [lastRegBusStop EXCEPT ![row.busID] = {lastBusStop}]
               /\ trips' = [trips EXCEPT ![row.busID] =
                               [x |-> Overwrite(@.x, row.date),
                                d |-> Overwrite(@.d, row.date),
                                y |-> Overwrite(@.y, lastBusStop.id),
                                p |-> Overwrite(@.p, <<row.lat, row.lng>>)]]
        /\ UNCHANGED <<tripKeys, rawHeadway, todo, pc>>

\* "BUGGGG da lista do busID"
\* mutant: the trip is seeded again at the row itself, which is registered
WrapReseedAtRow ==
    \E row \in NextRows :
        /\ Read(row)
        /\ Branch(row) = "wrap"
        /\ lastRegBusPosition' = [lastRegBusPosition EXCEPT ![row.busID] = {Avl(row)}]
        /\ LET lastBusStop == LastBusStop(row)
           IN  /\ lastRegBusStop' = [lastRegBusStop EXCEPT ![row.busID] = {lastBusStop}]
               /\ trips' = [trips EXCEPT ![row.busID] =
                               Seed(row.date, lastBusStop.id, <<row.lat, row.lng>>)]
        /\ UNCHANGED <<tripKeys, rawHeadway, todo, pc>>

WrapReseed ==
    \E row \in NextRows :
        /\ Read(row)
        /\ Branch(row) = "wrap"
        /\ lastRegBusPosition' = [lastRegBusPosition EXCEPT ![row.busID] = {PrevAVL(row)}]
        /\ LET lastBusStop == LastBusStop(row)
           IN  /\ lastRegBusStop' = [lastRegBusStop EXCEPT ![row.busID] = {lastBusStop}]
               /\ trips' = [trips EXCEPT ![row.busID] =
                               Seed(PrevAVL(row).date, lastBusStop.id,
                                    <<PrevAVL(row).lat, PrevAVL(row).lng>>)]
        /\ UNCHANGED <<tripKeys, rawHeadway, todo, pc>>

\* mutant: the trip is flushed without the event of the route end
TripCompletionNoRouteEnd ==
    \E row \in NextRows :
        /\ Read(row)
        /\ Branch(row) = "complete"
        /\ lastRegBusPosition' = [lastRegBusPosition EXCEPT ![row.busID] = {Avl(row)}]
        /\ rawHeadway' = Emit(rawHeadway, row.busID, trips[row.busID].x, trips[row.busID].y)
        /\ trips' = [trips EXCEPT ![row.busID] = EmptyTrip]
        /\ lastRegBusStop' = [lastRegBusStop EXCEPT ![row.busID] = {}]
        /\ UNCHANGED <<tripKeys, todo, pc>>

\* the bus went back to the first stops: its trip is finished
TripCompletion ==
    \E row \in NextRows :
        /\ Read(row)
        /\ Branch(row) = "complete"
        /\ lastRegBusPosition' = [lastRegBusPosition EXCEPT ![row.busID] = {Avl(row)}]
        /\ IF Len(trips[row.busID].x) > 0
              THEN /\ rawHeadway' = Emit(rawHeadway, row.busID,
                                         Append(trips[row.busID].x, row.date),
                                         Append(trips[row.busID].y, RouteEndId))
                   /\ trips' = [trips EXCEPT ![row.busID] = EmptyTrip]
                   /\ lastRegBusStop' = [lastRegBusStop EXCEPT ![row.busID] = {}]
              ELSE /\ lastRegBusStop' =
                          [lastRegBusStop EXCEPT ![row.busID] = {LastBusStop(row)}]
                   /\ UNCHANGED <<rawHeadway, trips>>
        /\ UNCHANGED <<tripKeys, todo, pc>>

\* mutant: the matched stop is registered too
BackwardJumpMovesStop ==
    \E row \in NextRows :
        /\ Read(row)
        /\ Branch(row) = "back"
        /\ lastRegBusPosition' = [lastRegBusPosition EXCEPT ![row.busID] = {Avl(row)}]
        /\ lastRegBusStop' = [lastRegBusStop EXCEPT ![row.busID] = {LastBusStop(row)}]
        /\ UNCHANGED <<trips, tripKeys, rawHeadway, todo, pc>>

BackwardJumpRow ==
    \E row \in NextRows :
        /\ Read(row)
        /\ Branch(row) = "back"
        /\ lastRegBusPosition' = [lastRegBusPosition EXCEPT ![row.busID] = {Avl(row)}]
        /\ UNCHANGED <<lastRegBusStop, trips, tripKeys, rawHeadway, todo, pc>>

\* mutant: the matched stop is registered too
CurvatureRowMovesStop ==
    \E row \in NextRows :
        /\ Read(row)
        /\ Branch(row) = "curve"
        /\ lastRegBusPosition' = [lastRegBusPosition EXCEPT ![row.busID] = {Avl(row)}]
        /\ lastRegBusStop' = [lastRegBusStop EXCEPT ![row.busID] = {LastBusStop(row)}]
        /\ UNCHANGED <<trips, tripKeys, rawHeadway, todo, pc>>

\* "CURVINHA INICIAL"
CurvatureRow ==
    \E row \in NextRows :
        /\ Read(row)
        /\ Branch(row) = "curve"
        /\ lastRegBusPosition' = [lastRegBusPosition EXCEPT ![row.busID] = {Avl(row)}]
        /\ UNCHANGED <<lastRegBusStop, trips, tripKeys, rawHeadway, todo, pc>>

ForwardProgress ==
    \E row \in NextRows :
        /\ Read(row)
        /\ Branch(row) = "forward"
        /\ lastRegBusPosition' = [lastRegBusPosition EXCEPT ![row.busID] = {Avl(row)}]
        /\ LET lastBusStop == LastBusStop(row)
               passed      == Passed(row, lastBusStop)
           IN  /\ lastRegBusStop' = [lastRegBusStop EXCEPT ![row.busID] = {lastBusStop}]
               /\ trips' = IF NumTravStops(row, lastBusStop) > 0
                              THEN [trips EXCEPT ![row.busID] =
                                       [x |-> @.x \o passed.x,
                                        d |-> @.d \o passed.d,
                                        y |-> @.y \o passed.y,
                                        p |-> @.p \o passed.p]]
                              ELSE trips
        /\ UNCHANGED <<tripKeys, rawHeadway, todo, pc>>

\* velocity = deltaDistance / deltaDate with deltaDate = 0.0: ZeroDivisionError
ForwardZeroDivision ==
    \E row \in NextRows :
        /\ pc = "scan"
        /\ rowsRead < feed.limit
        /\ Branch(row) = "zerodiv"
        /\ rowsRead' = rowsRead + 1
        /\ avlData' = {row}
        /\ pc' = "error"
        /\ UNCHANGED <<busStops, feed, processedHeadway, output,
                       lastRegBusPosition, lastRegBusStop, trips,
                       tripKeys, rawHeadway, todo>>

\* the file has no more rows
EndOfFile ==
    /\ pc = "scan"
    /\ feed.script # <<>> => rowsRead = Len(feed.script)
    /\ pc' = "flush"
    /\ todo' = tripKeys
    /\ UNCHANGED <<busStops, feed, processedHeadway, output,
                   rowsRead, avlData, lastRegBusPosition,
                   lastRegBusStop, trips, tripKeys, rawHeadway>>

----------------------------------------------------------------------------
(* processAVL: the loop over the trips that did not complete *)

\* returns <<velocity, distance>>; the call raises when deltaDate is zero
getVelocityAndDistance(tx, ty, tp) ==
    LET distance     == getTravDistance(Last(tp)[1], Last(tp)[2])
        prevDistance == getTravDistance(tp[Len(tp) - 1][1], tp[Len(tp) - 1][2])
    IN  <<Velocity(distance - prevDistance, TSub(Last(tx), tx[Len(tx) - 1])), distance>>

\* a trip is saved when it has more than three samples and began inside the hours
Saved(tr) == Len(tr.y) > MinFlushLen /\ Hour(tr.x[1]) >= start

ToFinishStop(tr) == RouteEndId - Last(tr.y)

NearTheEnd(tr) == ToFinishStop(tr) < NearEnd /\ ToFinishStop(tr) > 0

\* the extrapolation raises: a zero deltaDate, or a stop the table lacks
ExtrapolationFails(tr) ==
    \/ Last(tr.x) = tr.x[Len(tr.x) - 1]
    \/ \E i \in 1..ToFinishStop(tr) :
          Last(tr.y) + i # RouteEndId /\ Last(tr.y) + i \notin DOMAIN busStops

\* the samples of the stops left up to the end of the route
Extrapolated(tr, pos) ==
    LET vd           == getVelocityAndDistance(tr.x, tr.y, tr.p)
        velocity     == vd[1]
        prevDistance == vd[2]
        prevDate     == Last(tr.x)
        idx(i)       == Last(tr.y) + i
        dist(i)      == IF idx(i) # RouteEndId
                           THEN busStops[idx(i)].dist - prevDistance
                           ELSE RouteEndDist - prevDistance
        stopid(i)    == IF idx(i) # RouteEndId THEN busStops[idx(i)].id ELSE RouteEndId
    IN  [x |-> tr.x \o [i \in 1..ToFinishStop(tr) |->
                           TimePassedAtBusStop(prevDate, dist(i), velocity)],
         d |-> tr.d,
         y |-> tr.y \o [i \in 1..ToFinishStop(tr) |-> stopid(i)],
         p |-> tr.p \o [i \in 1..ToFinishStop(tr) |-> pos]]

\* a trip of three samples or fewer is left out
DiscardTrip ==
    /\ pc = "flush"
    /\ todo # <<>>
    /\ ~Saved(trips[Head(todo)])
    /\ todo' = Tail(todo)
    /\ UNCHANGED <<busStops, feed, processedHeadway, output,
                   rowsRead, avlData, lastRegBusPosition,
                   lastRegBusStop, trips, tripKeys, rawHeadway, pc>>

\* a saved trip that is not one or two stops short of the end
FlushTrip ==
    /\ pc = "flush"
    /\ todo # <<>>
    /\ Saved(trips[Head(todo)])
    /\ ~NearTheEnd(trips[Head(todo)])
    /\ rawHeadway' = Emit(rawHeadway, Head(todo), trips[Head(todo)].x, trips[Head(todo)].y)
    /\ todo' = Tail(todo)
    /\ UNCHANGED <<busStops, feed, processedHeadway, output,
                   rowsRead, avlData, lastRegBusPosition,
                   lastRegBusStop, trips, tripKeys, pc>>

\* a saved trip one or two stops short of the end: it is carried to the end
FlushExtrapolated ==
    /\ pc = "flush"
    /\ todo # <<>>
    /\ Saved(trips[Head(todo)])
    /\ NearTheEnd(trips[Head(todo)])
    /\ ~ExtrapolationFails(trips[Head(todo)])
    /\ LET tr == Extrapolated(trips[Head(todo)],
                              <<The(avlData).lat, The(avlData).lng>>)
       IN  /\ trips' = [trips EXCEPT ![Head(todo)] = tr]
           /\ rawHeadway' = Emit(rawHeadway, Head(todo), tr.x, tr.y)
    /\ todo' = Tail(todo)
    /\ UNCHANGED <<busStops, feed, processedHeadway, output,
                   rowsRead, avlData, lastRegBusPosition,
                   lastRegBusStop, tripKeys, pc>>

\* getVelocityAndDistance divides by a zero deltaDate: ZeroDivisionError
ExtrapolationError ==
    /\ pc = "flush"
    /\ todo # <<>>
    /\ Saved(trips[Head(todo)])
    /\ NearTheEnd(trips[Head(todo)])
    /\ ExtrapolationFails(trips[Head(todo)])
    /\ pc' = "error"
    /\ UNCHANGED <<busStops, feed, processedHeadway, output,
                   rowsRead, avlData, lastRegBusPosition,
                   lastRegBusStop, trips, tripKeys, rawHeadway, todo>>

\* return rawHeadway
Return ==
    /\ pc = "flush"
    /\ todo = <<>>
    /\ pc' = "done"
    /\ UNCHANGED <<busStops, feed, processedHeadway, output,
                   rowsRead, avlData, lastRegBusPosition,
                   lastRegBusStop, trips, tripKeys, rawHeadway, todo>>

----------------------------------------------------------------------------
(* Specification *)

Buses == {7}

\* rawHeadway is a defaultdict(list): a stop with no event yet has the empty
\* list.  The stops that may get events are those of the table and the
\* route end.
StopIds(stops) == {stops[i].id : i \in DOMAIN stops} \cup {RouteEndId}

InitWith(stops, f) ==
    /\ busStops = stops
    /\ feed = f
    /\ rowsRead = 0
    /\ avlData = {}
    /\ lastRegBusPosition = [b \in f.buses |-> {}]
    /\ lastRegBusStop = [b \in f.buses |-> {}]
    /\ trips = [b \in f.buses |-> EmptyTrip]
    /\ tripKeys = <<>>
    /\ rawHeadway = [s \in StopIds(stops) |-> <<>>]
    /\ todo = <<>>
    /\ processedHeadway = <<>>
    /\ output = [files |-> <<>>, stats |-> <<>>]
    /\ pc = "scan"

LineFeed == [buses |-> Buses, places |-> Places, deltas |-> Deltas, limit |-> MaxRows,
             clock |-> FirstClock, script |-> <<>>]

Init == InitWith(LineStops, LineFeed)

Next ==
    \/ FilteredRow
    \/ BreakAtEndHour
    \/ DuplicateRow
    \/ OutlierRow
    \/ ColdStart
    \/ StaleReset
    \/ WrapReseed
    \/ TripCompletion
    \/ BackwardJumpRow
    \/ CurvatureRow
    \/ ForwardProgress
    \/ EndOfFile
    \/ DiscardTrip
    \/ FlushTrip
    \/ FlushExtrapolated
    \/ ExtrapolationError
    \/ Return

\* a file of line 400 whose rows are in strictly ascending time order
Spec == Init /\ [][Next]_vars

InitTies == InitWith(LineStops, [LineFeed EXCEPT !.deltas = DeltasWithTies])

NextTies == Next \/ ForwardZeroDivision

\* a file of line 400 in which a row may repeat the time of the row before
SpecTies == InitTies /\ [][NextTies]_vars

\* the time of day before the first row of a file that begins before the
\* start hour: 04:50:00
HoursClock == 4 * 3600 + 50 * 60

\* seconds between consecutive rows of such a file: the long one takes the
\* file from before the start hour to the last quarter before the end hour
HoursDeltas == {130, 400, 25000}

InitHours == InitWith(LineStops, [LineFeed EXCEPT !.deltas = HoursDeltas,
                                                  !.clock = HoursClock])

\* a file of line 400 that begins before the start hour
SpecHours == InitHours /\ [][Next]_vars

----------------------------------------------------------------------------
(* One trip along a route of its own: a table of N stops, the first and    *)
(* the last terminal, and one bus that reports once on each stop in turn,  *)
(* at a constant velocity.                                                 *)

MaxTripStops == 6

\* metres between consecutive stops
TripGaps == {150, 400}

\* seconds the bus takes for 50 metres
TripPaces == {5, 30, 40}

TripClock == 9 * 3600

RECURSIVE SumTo(_, _)
SumTo(q, n) == IF n = 0 THEN 0 ELSE q[n] + SumTo(q, n - 1)

\* the table of the stops gaps[1], gaps[2], ... metres apart
TripStops(gaps) ==
    [i \in 1..(Len(gaps) + 1) |->
        [term |-> i \in {1, Len(gaps) + 1}, id |-> i,
         lat |-> SumTo(gaps, i - 1), lng |-> 0, dist |-> SumTo(gaps, i - 1)]]

\* one row of bus b on each stop, pace seconds per 50 metres after the row before
TripScript(b, gaps, pace) ==
    [k \in 1..(Len(gaps) + 1) |->
        <<b, <<SumTo(gaps, k - 1), 0>>,
          IF k = 1 THEN pace ELSE (gaps[k - 1] \div 50) * pace>>]

InitTrip ==
    \E n \in 4..MaxTripStops, pace \in TripPaces :
        \E gaps \in [1..(n - 1) -> TripGaps] :
            InitWith(TripStops(gaps),
                     [buses |-> Buses, places |-> {}, deltas |-> {}, limit |-> n,
                      clock |-> TripClock, script |-> TripScript(7, gaps, pace)])

NextTrip ==
    \/ ColdStart
    \/ StaleReset
    \/ ForwardProgress
    \/ EndOfFile
    \/ DiscardTrip
    \/ FlushTrip
    \/ Return

SpecTrip == InitTrip /\ [][NextTrip]_vars

----------------------------------------------------------------------------
(* Two buses on the same plan: bus 7 reports at the places and times of the *)
(* plan and bus 8 at the same places TwinLag seconds later, so that the     *)
(* rows of the two are interleaved in the file as the times of the plan     *)
(* have it.                                                                 *)

MaxTwinPings == 3

TwinBuses == {7, 8}

\* seconds bus 8 is behind bus 7
TwinLag == 200

\* seconds between consecutive pings of a plan: less than the lag, so that
\* bus 7 reports twice before bus 8 starts, or more, so that the two alternate
TwinDeltas == {130, 400}

\* seconds from the clock to ping k of the plan; a ping is <<place, delta>>
RECURSIVE PlanTime(_, _)
PlanTime(plan, k) == IF k = 0 THEN 0 ELSE plan[k][2] + PlanTime(plan, k - 1)

\* the pings of the two buses: <<busID, place, seconds from the clock>>
TwinPings(plan) ==
    {<<7, plan[k][1], PlanTime(plan, k)>> : k \in 1..Len(plan)}
    \cup {<<8, plan[k][1], PlanTime(plan, k) + TwinLag>> : k \in 1..Len(plan)}

\* the pings in ascending order of time (no two are at the same time)
Merged(pings) ==
    [i \in 1..Cardinality(pings) |->
        CHOOSE e \in pings : Cardinality({f \in pings : f[3] < e[3]}) = i - 1]

\* the file of the pings: entry i is <<busID, place, seconds after entry i-1>>
TwinScript(plan) ==
    LET rows == Merged(TwinPings(plan))
    IN  [i \in 1..Len(rows) |->
            <<rows[i][1], rows[i][2],
              rows[i][3] - (IF i = 1 THEN 0 ELSE rows[i - 1][3])>>]

\* the plan is up to MaxTwinPings places, reported at one interval
InitTwin ==
    \E n \in 1..MaxTwinPings, dt \in TwinDeltas :
        \E at \in [1..n -> Places] :
            InitWith(LineStops,
                     [buses |-> TwinBuses, places |-> {}, deltas |-> {},
                      limit |-> 2 * n, clock |-> TripClock,
                      script |-> TwinScript([k \in 1..n |-> <<at[k], dt>>])])

\* every row of the file passes the filter
NextTwin ==
    \/ DuplicateRow
    \/ OutlierRow
    \/ ColdStart
    \/ StaleReset
    \/ WrapReseed
    \/ TripCompletion
    \/ BackwardJumpRow
    \/ CurvatureRow
    \/ ForwardProgress
    \/ EndOfFile
    \/ DiscardTrip
    \/ FlushTrip
    \/ FlushExtrapolated
    \/ ExtrapolationError
    \/ Return

SpecTwin == InitTwin /\ [][NextTwin]_vars

----------------------------------------------------------------------------
(* One row over a table of its own: the stops of the table stand anywhere   *)
(* along the route, carry any travelled distance and are terminal or not,   *)
(* and the bus reports once, so that the row is matched by the cold start.  *)

MaxMatchStops == 3

\* metres along the route at which a stop may stand: at its start, 90 m and
\* 500 m along it, and 75 m before the end of the loop
MatchLats == {0, 90, 500, 14450}

\* the travelled distance the table may give for a stop
MatchDists == {0, 500}

\* where the bus reports: near the stops, at 100 m and at 15 m from one,
\* far from all, and 25 m and 10 m before the end of the loop, which is
\* its start again
MatchPlaces == {<<10, 0>>, <<100, 0>>, <<491, 12>>, <<300, 0>>, LoopEnd, <<14515, 0>>}

\* the table whose stop i is cols[i] = <<term, lat, dist>>
MatchStops(cols) ==
    [i \in 1..Len(cols) |->
        [term |-> cols[i][1], id |-> i, lat |-> cols[i][2], lng |-> 0,
         dist |-> cols[i][3]]]

InitMatch ==
    \E n \in 2..MaxMatchStops, pl \in MatchPlaces :
        \E cols \in [1..n -> BOOLEAN \X MatchLats \X MatchDists] :
            InitWith(MatchStops(cols),
                     [buses |-> Buses, places |-> {}, deltas |-> {}, limit |-> 1,
                      clock |-> TripClock, script |-> << <<7, pl, 60>> >>])

NextMatch ==
    \/ ColdStart
    \/ EndOfFile
    \/ DiscardTrip
    \/ Return

SpecMatch == InitMatch /\ [][NextMatch]_vars

----------------------------------------------------------------------------
(* deriveHeadway and the end of main *)

\* list.sort(key=lambda x: x[1]) is stable: e goes after every event of the
\* sorted list whose time is not later than its own
Insert(sorted, e) ==
    LET n == Cardinality({i \in 1..Len(sorted) : TLeq(sorted[i][2], e[2])})
    IN  SubSeq(sorted, 1, n) \o <<e>> \o SubSeq(sorted, n + 1, Len(sorted))

\* mutant: the list is left in the order of arrival
Unsorted(q) == q

RECURSIVE SortByTime(_)
SortByTime(q) ==
    IF q = <<>> THEN <<>>
    ELSE Insert(SortByTime(SubSeq(q, 1, Len(q) - 1)), q[Len(q)])

\* mutant: one sample for each event, the last one against itself
HeadwayOfEach(sorted) ==
    [i \in 1..Len(sorted) |->
        TSub(sorted[IF i < Len(sorted) THEN i + 1 ELSE i][2], sorted[i][2])]

\* (next[1] - prev[1]).total_seconds() over zip(list[:-1], list[1:]); a
\* number of seconds is kept as <<s, us>>
HeadwayAtStopList(sorted) ==
    [i \in 1..(Len(sorted) - 1) |-> TSub(sorted[i + 1][2], sorted[i][2])]

deriveHeadway(rh) ==
    [busStopID \in DOMAIN rh |-> HeadwayAtStopList(SortByTime(rh[busStopID]))]

\* rawHeadway is a defaultdict: a stop is a key of it once an event was
\* appended to its list
Keys(rh) == {s \in DOMAIN rh : rh[s] # <<>>}

AsDict(rh) == [s \in Keys(rh) |-> rh[s]]

\* processedHeadway = deriveHeadway(rawHeadway), which sorts the lists in place
DeriveHeadway ==
    /\ pc = "done"
    /\ processedHeadway' = deriveHeadway(AsDict(rawHeadway))
    /\ rawHeadway' = [s \in DOMAIN rawHeadway |-> SortByTime(rawHeadway[s])]
    /\ pc' = "derived"
    /\ UNCHANGED <<busStops, feed, output, rowsRead, avlData, lastRegBusPosition,
                   lastRegBusStop, trips, tripKeys, todo>>

MinT(q) == CHOOSE v \in {q[i] : i \in 1..Len(q)} : \A i \in 1..Len(q) : TLeq(v, q[i])

MaxT(q) == CHOOSE v \in {q[i] : i \in 1..Len(q)} : \A i \in 1..Len(q) : TLeq(q[i], v)

\* res += a[i] for i = from, from + by, ... up to last
RECURSIVE Accumulate(_, _, _, _, _)
Accumulate(res, a, from, by, last) ==
    IF from > last THEN res
    ELSE Accumulate(FloatAdd(res, a[from]), a, from + by, by, last)

\* the sum numpy's add.reduce makes of a contiguous array of floats: fewer
\* than 8 are added one after the other; up to 128 are added in 8 lanes,
\* the lanes in pairs and the rest one after the other; more are split in
\* two parts, the first one a multiple of 8 long
RECURSIVE pairwise_sum(_)
pairwise_sum(a) ==
    LET n        == Len(a)
        full     == n - (n % 8)
        n2       == (n \div 2) - ((n \div 2) % 8)
        lanes    == [j \in 1..8 |-> Accumulate(a[j], a, j + 8, 8, full)]
        Pairs(r) == [j \in 1..(Len(r) \div 2) |-> FloatAdd(r[2 * j - 1], r[2 * j])]
    IN  IF n < 8 THEN Accumulate(Float(BigOf(0)), a, 1, 1, n)
        ELSE IF n <= 128 THEN Accumulate(Pairs(Pairs(Pairs(lanes)))[1], a, full + 1, 1, n)
        ELSE FloatAdd(pairwise_sum(SubSeq(a, 1, n2)), pairwise_sum(SubSeq(a, n2 + 1, n)))

\* np.mean of the samples of a stop, which are floats of seconds: their
\* sum divided by their number, a float (mantissa m, in limbs, and exponent e)
mean(q) ==
    FloatDiv(pairwise_sum([i \in 1..Len(q) |-> total_seconds(q[i])]), Float(BigOf(Len(q))))

\* the line printed for a stop: np.mean, a float, and np.min and np.max of
\* its samples, each the <<s, us>> of the float of seconds it is (the two
\* deviations printed with them, np.std of the same array, are left out)
StatsLine(busStopID, headwayAtStop) ==
    [id    |-> busStopID,
     media |-> mean(headwayAtStop),
     min   |-> MinT(headwayAtStop),
     max   |-> MaxT(headwayAtStop)]

\* the stops in sorted(processedHeadway.keys()) order
RECURSIVE SortedKeys(_)
SortedKeys(S) ==
    IF S = {} THEN <<>>
    ELSE LET least == CHOOSE v \in S : \A w \in S : v <= w
         IN  <<least>> \o SortedKeys(S \ {least})

\* np.min and np.max of an empty array raise ValueError
NoSamples(h) == {s \in DOMAIN h : h[s] = <<>>}

\* writeOutput, then the statistics of every stop
Statistics ==
    /\ pc = "derived"
    /\ NoSamples(processedHeadway) = {}
    /\ output' = [files |-> processedHeadway,
                  stats |-> [k \in 1..Cardinality(DOMAIN processedHeadway) |->
                               LET id == SortedKeys(DOMAIN processedHeadway)[k]
                               IN  StatsLine(id, processedHeadway[id])]]
    /\ pc' = "finished"
    /\ UNCHANGED <<busStops, feed, processedHeadway, rowsRead, avlData,
                   lastRegBusPosition, lastRegBusStop, trips, tripKeys,
                   rawHeadway, todo>>

\* writeOutput, then the statistics up to the first stop without a sample,
\* where np.min raises
StatisticsError ==
    /\ pc = "derived"
    /\ NoSamples(processedHeadway) # {}
    /\ LET first  == CHOOSE v \in NoSamples(processedHeadway) :
                         \A w \in NoSamples(processedHeadway) : v <= w
           before == {s \in DOMAIN processedHeadway : s < first}
       IN  output' = [files |-> processedHeadway,
                      stats |-> [k \in 1..Cardinality(before) |->
                                   LET id == SortedKeys(before)[k]
                                   IN  StatsLine(id, processedHeadway[id])]]
    /\ pc' = "error"
    /\ UNCHANGED <<busStops, feed, processedHeadway, rowsRead, avlData,
                   lastRegBusPosition, lastRegBusStop, trips, tripKeys,
                   rawHeadway, todo>>

\* the most events a stop holds when deriveHeadway is called
MaxEvents == 3

\* the pass times of the events
PassTimes == {<<100, 0>>, <<250, 0>>, <<250, 500000>>}

PassEvents == {<<b, t>> : b \in {7, 8}, t \in PassTimes}

\* the lists of up to n events, in every order of arrival
EventLists(n) == UNION {[1..k -> PassEvents] : k \in 0..n}

\* processAVL has returned: stop 3 holds any list of events, stop 4 at most
\* one event, stop 5 two events or none
InitHeadway ==
    /\ busStops = LineStops
    /\ feed = LineFeed
    /\ rowsRead = 0
    /\ avlData = {}
    /\ lastRegBusPosition = [b \in Buses |-> {}]
    /\ lastRegBusStop = [b \in Buses |-> {}]
    /\ trips = [b \in Buses |-> EmptyTrip]
    /\ tripKeys = <<>>
    /\ \E at3 \in EventLists(MaxEvents), at4 \in EventLists(1),
          at5 \in {<<>>, << <<7, <<250, 0>>>>, <<8, <<100, 0>>>> >>} :
            rawHeadway = [s \in StopIds(LineStops) |->
                            CASE s = 3 -> at3 [] s = 4 -> at4 [] s = 5 -> at5
                              [] OTHER -> <<>>]
    /\ todo = <<>>
    /\ processedHeadway = <<>>
    /\ output = [files |-> <<>>, stats |-> <<>>]
    /\ pc = "done"

NextHeadway ==
    \/ DeriveHeadway
    \/ Statistics
    \/ StatisticsError

SpecHeadway == InitHeadway /\ [][NextHeadway]_vars

----------------------------------------------------------------------------
(* Vocabulary of the properties *)

\* this step consumes a row of the file
ReadsRow == rowsRead' = rowsRead + 1

\* the row this step consumes
RowRead == The(avlData')

\* the row passes the filter on line, hours and service
Accepted(row) ==
    /\ row.line = 400
    /\ Hour(row.date) >= 5
    /\ Hour(row.date) < 12
    /\ row.letreiro # "FORA DE SERVICO"

\* the row repeats the last registered position of its bus
SamePlace(row) ==
    /\ lastRegBusPosition[row.busID] # {}
    /\ \A a \in lastRegBusPosition[row.busID] : a.lat = row.lat /\ a.lng = row.lng

\* the row is 250 m or more off the route
OffRoute(lat, lng) == lng >= 250 \/ lng <= -250

\* the number of pass events recorded so far
RECURSIVE SumLen(_, _)
SumLen(rh, S) ==
    IF S = {} THEN 0
    ELSE LET s == CHOOSE v \in S : TRUE IN Len(rh[s]) + SumLen(rh, S \ {s})

NumEvents(rh) == SumLen(rh, DOMAIN rh)

\* the events a step adds at a stop
Added(stopId) == SubSeq(rawHeadway'[stopId], Len(rawHeadway[stopId]) + 1,
                        Len(rawHeadway'[stopId]))

\* a step never removes or rewrites an event
EventsKept ==
    \A s \in DOMAIN rawHeadway :
        /\ Len(rawHeadway'[s]) >= Len(rawHeadway[s])
        /\ SubSeq(rawHeadway'[s], 1, Len(rawHeadway[s])) = rawHeadway[s]

----------------------------------------------------------------------------
(* C1: a row that passes the filter and reports the very position last     *)
(* registered for its bus changes nothing of the tracker (last registered  *)
(* position, last registered stop, open trips) and records no event,       *)
(* whatever the time since that position and whether or not it was an      *)
(* outlier; the scan goes on.                                              *)
C1_DuplicateNoOp ==
    [][ (ReadsRow /\ Accepted(RowRead) /\ SamePlace(RowRead))
            => /\ UNCHANGED <<lastRegBusPosition, lastRegBusStop, trips, tripKeys,
                              rawHeadway>>
               /\ pc' = "scan" ]_vars

\* a repeated outlier position arrived more than 300 s after the outlier
\* was registered, and was ignored
C1_Witness ==
    /\ avlData # {}
    /\ LET row == The(avlData)
       IN  /\ Accepted(row)
           /\ SamePlace(row)
           /\ OffRoute(row.lat, row.lng)
           /\ lastRegBusStop[row.busID] = {}
           /\ LongerThan(TSub(row.date, The(lastRegBusPosition[row.busID]).date), 300)

(* C2: a row that passes the filter, is no duplicate and is an outlier     *)
(* becomes the last registered position, clears the last registered stop   *)
(* and records no event; the next row of the bus that is neither duplicate *)
(* nor outlier starts the trip anew with one sample, at its own time and   *)
(* matched stop.  So a bus that has a registered stop never has an outlier *)
(* as its registered position: no sample is interpolated from an outlier.  *)
C2_OutlierIsolation ==
    [][ /\ (ReadsRow /\ Accepted(RowRead) /\ ~SamePlace(RowRead))
            => LET row == RowRead
                   b   == RowRead.busID
               IN  /\ OffRoute(row.lat, row.lng)
                        => /\ lastRegBusPosition'[b] = {Avl(row)}
                           /\ lastRegBusStop'[b] = {}
                           /\ rawHeadway' = rawHeadway
                   /\ (/\ ~OffRoute(row.lat, row.lng)
                       /\ \E a \in lastRegBusPosition[b] : OffRoute(a.lat, a.lng))
                        => /\ Len(trips'[b].x) = 1
                           /\ trips'[b].x[1] = row.date
                           /\ trips'[b].y[1] =
                                getLastBusStop(row.lat, row.lng,
                                               getTravDistance(row.lat, row.lng),
                                               busStops)[1].id
                           /\ lastRegBusPosition'[b] = {Avl(row)}
                           /\ rawHeadway' = rawHeadway
        /\ \A b \in DOMAIN lastRegBusStop' :
              lastRegBusStop'[b] # {}
                  => \A a \in lastRegBusPosition'[b] : ~OffRoute(a.lat, a.lng) ]_vars

\* an outlier was registered for a bus that had a trip of several samples open
C2_Witness ==
    \E b \in DOMAIN trips :
        /\ lastRegBusStop[b] = {}
        /\ \E a \in lastRegBusPosition[b] : OffRoute(a.lat, a.lng)
        /\ Len(trips[b].x) > 1

\* the end-of-file loop is at the open trip of a bus
AtOpenTrip == pc = "flush" /\ todo # <<>>

\* the sample i of trip tr of bus b is among the events the step adds
Emitted(b, tr, i) ==
    \E k \in 1..Len(Added(tr.y[i])) : Added(tr.y[i])[k] = <<b, tr.x[i]>>

\* the step adds one event for each sample of trip tr of bus b, and no other
EmitsExactly(b, tr) ==
    /\ EventsKept
    /\ NumEvents(rawHeadway') = NumEvents(rawHeadway) + Len(tr.y)
    /\ \A i \in 1..Len(tr.y) : Emitted(b, tr, i)

(* C3: at the end of the file an open trip adds events only if it holds    *)
(* more than 3 samples and its last stop is within 2 stops of the route    *)
(* end; in every other case no event is added for it.                      *)
C3_DiscardUnlessNearEnd ==
    [][ AtOpenTrip
            => LET tr == trips[Head(todo)]
               IN  rawHeadway' # rawHeadway
                      => Len(tr.y) > 3 /\ 37 - tr.y[Len(tr.y)] <= 2 ]_vars

(* C4: at the end of the file, an open trip of more than 3 samples whose   *)
(* first sample is inside the hours and whose last stop s has              *)
(* 0 < 37 - s <= 2 is extended by 37 - s samples, of stops s+1..37 in      *)
(* order (at the last buffered time when the last velocity is 0), and then *)
(* each of its samples, buffered and extended, becomes one event.          *)
C4_FlushWithExtrapolation ==
    [][ (/\ AtOpenTrip
         /\ Len(trips[Head(todo)].y) > 3
         /\ Hour(trips[Head(todo)].x[1]) >= 5
         /\ Hour(trips[Head(todo)].x[1]) < 12
         /\ 37 - Last(trips[Head(todo)].y) > 0
         /\ 37 - Last(trips[Head(todo)].y) <= 2)
            => LET b   == Head(todo)
                   tr  == trips[Head(todo)]
                   n   == Len(trips[Head(todo)].y)
                   s   == Last(trips[Head(todo)].y)
                   new == trips'[Head(todo)]
               IN  /\ pc' # "error"
                   /\ Len(new.y) = n + (37 - s)
                   /\ Len(new.x) = Len(new.y)
                   /\ SubSeq(new.y, 1, n) = tr.y
                   /\ SubSeq(new.x, 1, n) = tr.x
                   /\ \A i \in 1..(37 - s) : new.y[n + i] = s + i
                   /\ tr.p[n][1] = tr.p[n - 1][1]
                          => \A i \in 1..(37 - s) : new.x[n + i] = tr.x[n]
                   /\ EmitsExactly(b, new) ]_vars

\* the row reaches the tracker of a bus that has a registered stop
Tracking(row) ==
    /\ Accepted(row)
    /\ ~SamePlace(row)
    /\ ~OffRoute(row.lat, row.lng)
    /\ lastRegBusStop[row.busID] # {}

\* the stop the row is matched to
MatchedStop(row) == getLastBusStop(row.lat, row.lng, row.lat, busStops)[1]

\* one of the three stale-gap conditions holds of a tracked row
StaleCase(row) ==
    LET b    == row.busID
        prev == The(lastRegBusPosition[row.busID])
        stop == The(lastRegBusStop[row.busID])
    IN  \/ /\ stop.term
           /\ LongerThan(TSub(row.date, Last(trips[b].x)), 120)
           /\ Haversine(<<row.lat, row.lng>>, Last(trips[b].p), 100)
        \/ /\ stop.term
           /\ LongerThan(TSub(row.date, prev.date), 300)
        \/ /\ row.lat <= prev.lat
           /\ stop.id # MatchedStop(row).id
           /\ Len(trips[b].x) < 5

\* the spurious wraparound: a trip of at most 2 samples back at stop 1
WrapCase(row) ==
    /\ Len(trips[row.busID].x) <= 2
    /\ The(lastRegBusStop[row.busID]).id > MatchedStop(row).id
    /\ MatchedStop(row).id = 1

(* C5: a tracked row for which one of the three stale-gap conditions holds *)
(* discards the whole open trip of its bus and leaves the state of a cold  *)
(* start at the row: the trip holds exactly one sample (the row's time,    *)
(* the row's matched stop), the registered position is the row, the        *)
(* registered stop is the matched stop, and no event is added.             *)
C5_StaleGapReset ==
    [][ (ReadsRow /\ Tracking(RowRead) /\ StaleCase(RowRead))
            => LET row == RowRead
                   b   == RowRead.busID
               IN  /\ trips'[b].x = <<row.date>>
                   /\ trips'[b].y = <<MatchedStop(row).id>>
                   /\ lastRegBusPosition'[b] = {Avl(row)}
                   /\ lastRegBusStop'[b] = {MatchedStop(row)}
                   /\ rawHeadway' = rawHeadway ]_vars

(* C6: a tracked row to which neither a stale-gap condition nor the        *)
(* spurious wraparound applies, whose matched stop id is lower than the    *)
(* registered stop's and at most 2, finishes the trip: for an open trip of *)
(* n > 0 samples exactly n+1 events are added for the bus, the n samples   *)
(* as they are and one for stop 37 at the row's time; then the trip is     *)
(* empty and the registered stop cleared, and a row that reaches the       *)
(* tracker of a bus with no registered stop starts a trip of one sample.   *)
C6_TripCompletion ==
    [][ /\ (/\ ReadsRow /\ Tracking(RowRead)
            /\ ~StaleCase(RowRead) /\ ~WrapCase(RowRead)
            /\ MatchedStop(RowRead).id < The(lastRegBusStop[RowRead.busID]).id
            /\ MatchedStop(RowRead).id <= 2
            /\ Len(trips[RowRead.busID].x) > 0)
              => LET row == RowRead
                     b   == RowRead.busID
                     tr  == trips[RowRead.busID]
                 IN  /\ EmitsExactly(b, [x |-> Append(tr.x, row.date),
                                         y |-> Append(tr.y, 37)])
                     /\ \A i \in 1..Len(tr.y) : tr.y[i] # 37
                     /\ trips'[b].x = <<>>
                     /\ trips'[b].y = <<>>
                     /\ lastRegBusStop'[b] = {}
                     /\ pc' = "scan"
        /\ (/\ ReadsRow /\ Accepted(RowRead) /\ ~SamePlace(RowRead)
            /\ ~OffRoute(RowRead.lat, RowRead.lng)
            /\ lastRegBusStop[RowRead.busID] = {})
              => /\ trips'[RowRead.busID].x = <<RowRead.date>>
                 /\ trips'[RowRead.busID].y = <<MatchedStop(RowRead).id>>
                 /\ lastRegBusStop'[RowRead.busID] = {MatchedStop(RowRead)}
                 /\ rawHeadway' = rawHeadway ]_vars

\* bus 7 went from stop 6 back to stop 1: its five samples and the route
\* end were flushed, its trip is empty and its registered stop cleared
C6_Witness ==
    /\ pc = "scan"
    /\ avlData # {}
    /\ lastRegBusPosition[7] = {Avl(The(avlData))}
    /\ MatchedStop(The(avlData)).id = 1
    /\ lastRegBusStop[7] = {}
    /\ trips[7].y = <<>>
    /\ rawHeadway[37] = << <<7, The(avlData).date>> >>
    /\ NumEvents(rawHeadway) = 6

(* C7: in every reachable state and for every bus, the stop ids of the     *)
(* open trip are non-decreasing in the order of the samples.               *)
C7_BufferOrder ==
    \A b \in DOMAIN trips :
        \A i, j \in 1..Len(trips[b].y) : i < j => trips[b].y[i] <= trips[b].y[j]

(* C8: for every bus and every trip flushed, by a trip completion or at    *)
(* the end of the file, the pass times of the events added are             *)
(* non-decreasing in the order of the stops, when the rows of the file     *)
(* are in strictly ascending time order.                                   *)
C8_MonotonicPassEvents ==
    [][ \A s1, s2 \in DOMAIN rawHeadway :
            s1 < s2 =>
                \A k1 \in 1..Len(Added(s1)), k2 \in 1..Len(Added(s2)) :
                    Added(s1)[k1][1] = Added(s2)[k2][1]
                        => TLeq(Added(s1)[k1][2], Added(s2)[k2][2]) ]_vars

(* C9: a tracked row that bears the time of the registered position of its *)
(* bus and is matched k > 0 stops further raises no error, and each of the *)
(* k samples it appends has the time of the registered position; likewise  *)
(* at the end of the file the extrapolation of a trip whose two last       *)
(* samples have equal times raises no error.                               *)
C9_DegenerateVelocity ==
    [][ /\ (/\ ReadsRow /\ Tracking(RowRead) /\ ~StaleCase(RowRead)
            /\ RowRead.date = The(lastRegBusPosition[RowRead.busID]).date
            /\ MatchedStop(RowRead).id > The(lastRegBusStop[RowRead.busID]).id
            /\ ~(/\ MatchedStop(RowRead).id \in {35, 36}
                 /\ The(lastRegBusStop[RowRead.busID]).id = 1))
              => LET b == RowRead.busID
                     n == Len(trips[RowRead.busID].x)
                     k == MatchedStop(RowRead).id - The(lastRegBusStop[RowRead.busID]).id
                 IN  /\ pc' # "error"
                     /\ Len(trips'[b].x) = n + k
                     /\ \A i \in 1..k : trips'[b].x[n + i] = RowRead.date
        /\ (/\ AtOpenTrip
            /\ Len(trips[Head(todo)].y) > 3
            /\ 37 - Last(trips[Head(todo)].y) > 0
            /\ 37 - Last(trips[Head(todo)].y) <= 2
            /\ Last(trips[Head(todo)].x) =
                   trips[Head(todo)].x[Len(trips[Head(todo)].x) - 1])
              => pc' # "error" ]_vars

\* the time of row k of a file that has a script
RowTime(k) ==
    <<feed.clock + SumTo([i \in 1..Len(feed.script) |-> feed.script[i][3]], k), 0>>

\* a run over a table of N stops at increasing distances, no stop within
\* 100 m of another, whose file is one row of bus 7 on each stop in turn
OneRowPerStop ==
    /\ Len(feed.script) = Len(busStops)
    /\ \A k \in 1..Len(busStops) :
          /\ feed.script[k][1] = 7
          /\ feed.script[k][2] = <<busStops[k].lat, busStops[k].lng>>
          /\ k > 1 => busStops[k].dist > busStops[k - 1].dist
    /\ \A j, k \in 1..Len(busStops) :
          j # k => ~Haversine(<<busStops[j].lat, busStops[j].lng>>,
                              <<busStops[k].lat, busStops[k].lng>>, 100)

(* C10 (as amended): on a route of N stops, 4 <= N <= 34, at increasing    *)
(* distances and more than 100 m from one another (1 and N terminal), one  *)
(* bus that reports once on each stop in turn, inside the hours, at a      *)
(* constant positive velocity, its second row at most 300 s after its      *)
(* first, ends the run with exactly one event per stop 1..N, the event of  *)
(* stop 1 included (the sample that seeds the trip, at the time of the     *)
(* first row), each at the time of the row on that stop, the times         *)
(* strictly increasing with the stop id, and no event for any other stop.  *)
C10_ConstantVelocityTrip ==
    (/\ pc = "done"
     /\ OneRowPerStop
     /\ Len(busStops) >= 4
     /\ Len(busStops) <= 34
     /\ feed.script[2][3] <= 300)
        => /\ \A s \in DOMAIN rawHeadway :
                 rawHeadway[s] = IF s <= Len(busStops) THEN << <<7, RowTime(s)>> >>
                                                       ELSE <<>>
           /\ \A s \in 2..Len(busStops) :
                 TLess(rawHeadway[s - 1][1][2], rawHeadway[s][1][2])

\* a run over a table of 5 stops, the rows 90 s or 240 s apart, has ended
\* with events at the first and at the last stop
C10_Witness ==
    /\ pc = "done"
    /\ OneRowPerStop
    /\ Len(busStops) = 5
    /\ feed.script[2][3] = 240
    /\ feed.script[3][3] = 90
    /\ rawHeadway[1] # <<>>
    /\ rawHeadway[5] # <<>>

(* C10 (as stated): such a run ends with exactly one event per stop 2..N   *)
(* and no event for stop 1, each at the time of the row on that stop, the  *)
(* times strictly increasing with the stop id.                             *)
C10_NoEventForFirstStop ==
    (pc = "done" /\ OneRowPerStop)
        => /\ rawHeadway[1] = <<>>
           /\ \A s \in 2..Len(busStops) : rawHeadway[s] = << <<7, RowTime(s)>> >>
           /\ \A s \in 3..Len(busStops) :
                 TLess(rawHeadway[s - 1][1][2], rawHeadway[s][1][2])

\* this step is the call of deriveHeadway
Derives == pc = "done" /\ pc' = "derived"

\* the number of times e occurs in the list q
Count(q, e) == Cardinality({i \in 1..Len(q) : q[i] = e})

\* the two lists hold the same events, each as many times
SameEvents(q, r) ==
    /\ Len(q) = Len(r)
    /\ \A i \in 1..Len(q) : Count(q, q[i]) = Count(r, q[i])

\* the list q in every order
Orders(q) ==
    {[i \in 1..Len(q) |-> q[f[i]]] :
        f \in {g \in [1..Len(q) -> 1..Len(q)] :
                  \A i, j \in 1..Len(q) : g[i] = g[j] => i = j}}

(* C11: for every stop with n >= 1 recorded events deriveHeadway returns   *)
(* exactly n - 1 samples, sample i being the time of event i+1 less the    *)
(* time of event i once the events of the stop are put in ascending order  *)
(* of time; every sample is non-negative, a stop with one event has an     *)
(* empty list of samples and a stop with no event has no sample.           *)
C11_HeadwayDerivation ==
    [][ Derives =>
          \A s \in DOMAIN rawHeadway :
              LET n      == Len(rawHeadway[s])
                  sorted == rawHeadway'[s]
              IN  /\ SameEvents(sorted, rawHeadway[s])
                  /\ \A i \in 1..(n - 1) : TLeq(sorted[i][2], sorted[i + 1][2])
                  /\ n = 0 => (s \in DOMAIN processedHeadway'
                                  => processedHeadway'[s] = <<>>)
                  /\ n >= 1 =>
                        /\ s \in DOMAIN processedHeadway'
                        /\ Len(processedHeadway'[s]) = n - 1
                        /\ \A i \in 1..(n - 1) :
                              /\ TAdd(sorted[i][2], processedHeadway'[s][i])
                                     = sorted[i + 1][2]
                              /\ TLeq(<<0, 0>>, processedHeadway'[s][i]) ]_vars

\* stop 3 had three events, at 100 s, 250 s and 250.5 s, and has the samples
\* 150 s and 0.5 s; stop 4 had one event and has an empty list
C11_Witness ==
    /\ pc = "derived"
    /\ Len(rawHeadway[3]) = 3
    /\ processedHeadway[3] = << <<150, 0>>, <<0, 500000>> >>
    /\ Len(rawHeadway[4]) = 1
    /\ processedHeadway[4] = <<>>

(* C12: the samples deriveHeadway returns do not depend on the order in    *)
(* which the events were appended to the list of a stop: with the list of  *)
(* any stop in any other order the result is the same, also when two       *)
(* events of the stop have equal pass times.                               *)
C12_ArrivalOrderIndependent ==
    [][ Derives =>
          \A s \in Keys(rawHeadway) :
              \A q \in Orders(rawHeadway[s]) :
                  deriveHeadway([AsDict(rawHeadway) EXCEPT ![s] = q])
                      = processedHeadway' ]_vars

\* stop 3 had three events that did not arrive in the order of their times,
\* two of them of different buses at the same time
C12_Witness ==
    /\ pc = "derived"
    /\ Len(rawHeadway[3]) = 3
    /\ processedHeadway[3] = << <<150, 0>>, <<0, 0>> >>
    /\ rawHeadway[3][2][1] # rawHeadway[3][3][1]
    /\ Len(rawHeadway[5]) = 2

\* this step is the statistics loop of main, run to its end or to an error
Summarises == pc = "derived" /\ pc' # "derived"

\* the stops that have a line of statistics
Reported == {output.stats[k].id : k \in 1..Len(output.stats)}

(* C13: when the array of samples of some stop is empty the statistics     *)
(* step raises no error and produces the statistics of every other stop.   *)
C13_EmptyArraysReported ==
    [][ Summarises /\ NoSamples(processedHeadway) # {} =>
          /\ pc' = "finished"
          /\ (DOMAIN processedHeadway) \ NoSamples(processedHeadway)
                \subseteq Reported' ]_vars

(* C14: a row of another line, a row whose hour is before the start hour   *)
(* or at or after the end hour, and a row of a bus out of service change   *)
(* no bus's last registered position, last registered stop or open trip,   *)
(* record no event and raise no error.                                     *)
C14_FilteredRowNoOp ==
    [][ (ReadsRow /\ ~Accepted(RowRead))
            => /\ UNCHANGED <<lastRegBusPosition, lastRegBusStop, trips, tripKeys,
                              rawHeadway>>
               /\ pc' # "error" ]_vars

\* a row of a bus out of service was read, inside the hours, while the bus
\* had a registered stop and an open trip of several samples; the file began
\* before the start hour
C14_Witness ==
    /\ pc = "scan"
    /\ avlData # {}
    /\ feed.clock < 5 * 3600
    /\ LET row == The(avlData)
       IN  /\ row.letreiro = "FORA DE SERVICO"
           /\ Hour(row.date) >= 5 /\ Hour(row.date) < 12
           /\ lastRegBusStop[row.busID] # {}
           /\ Len(trips[row.busID].y) > 1

\* the events the trip tr of bus b gives at the end of the scan when the last
\* row read was at the place pl
FlushedWith(b, tr, pl) ==
    IF ~Saved(tr) THEN rawHeadway
    ELSE IF ~NearTheEnd(tr) THEN Emit(rawHeadway, b, tr.x, tr.y)
    ELSE Emit(rawHeadway, b, Extrapolated(tr, pl).x, Extrapolated(tr, pl).y)

(* C15: the scan ends at the first row whose hour is at or after the end   *)
(* hour, whatever its line, bus or service: that row changes nothing of    *)
(* the tracker and the trips left open go to the end-of-file loop as they  *)
(* were before it; a row of an earlier hour, also one before the start     *)
(* hour, does not end the scan; once the scan has ended no row is read and *)
(* no registered position or stop changes, and the events the end-of-file  *)
(* loop records are the same whatever the place of the last row read.      *)
C15_EarlyExit ==
    [][ /\ (ReadsRow /\ Hour(RowRead.date) >= 12)
            => /\ pc' = "flush"
               /\ todo' = tripKeys
               /\ UNCHANGED <<lastRegBusPosition, lastRegBusStop, trips, tripKeys,
                              rawHeadway>>
        /\ (ReadsRow /\ Hour(RowRead.date) < 12) => pc' = "scan"
        /\ pc # "scan"
            => UNCHANGED <<rowsRead, avlData, lastRegBusPosition, lastRegBusStop>>
        /\ (pc = "flush" /\ todo # <<>> /\ pc' = "flush")
            => \A pl \in Places :
                  rawHeadway' = FlushedWith(Head(todo), trips[Head(todo)], pl) ]_vars

\* a file that began before the start hour was cut at a row of 12:00:00 and
\* the rows before it have given an event at the end of the route
C15_Witness ==
    /\ pc = "done"
    /\ feed.clock < 5 * 3600
    /\ avlData # {} /\ Hour(The(avlData).date) >= 12
    /\ rawHeadway[37] # <<>>

\* the pass times of the events of bus b at a stop, in the order recorded
EventTimes(b, stopId) ==
    LET idx == SelectSeq([i \in 1..Len(rawHeadway[stopId]) |-> i],
                         LAMBDA i : rawHeadway[stopId][i][1] = b)
    IN  [k \in 1..Len(idx) |-> rawHeadway[stopId][idx[k]][2]]

\* the step leaves the tracker of every bus but b alone and adds events of
\* no bus but b
OnlyOf(b) ==
    /\ \A o \in (DOMAIN trips) \ {b} :
          /\ lastRegBusPosition'[o] = lastRegBusPosition[o]
          /\ lastRegBusStop'[o] = lastRegBusStop[o]
          /\ trips'[o] = trips[o]
    /\ EventsKept
    /\ \A s \in DOMAIN rawHeadway :
          \A k \in 1..Len(Added(s)) : Added(s)[k][1] = b

(* C16: a row of one bus changes the last registered position, the last    *)
(* registered stop and the open trip of no other bus and records events of *)
(* no other bus, and so does the turn of a bus in the end-of-file loop;    *)
(* two buses that report the same places at the same intervals, their rows *)
(* interleaved in the file one way or another, have the same events at     *)
(* every stop when the run returns, a constant lag apart.                  *)
C16_VehicleIndependence ==
    /\ [][ /\ ReadsRow => OnlyOf(RowRead.busID)
           /\ AtOpenTrip => OnlyOf(Head(todo)) ]_vars
    /\ [](pc = "done" =>
            \A s \in DOMAIN rawHeadway :
                EventTimes(8, s) =
                    [k \in 1..Len(EventTimes(7, s)) |->
                        TAdd(EventTimes(7, s)[k], <<200, 0>>)])

\* the run has returned events of both buses at the end of the route, and a
\* row of bus 8 was read between two rows of bus 7
C16_Witness ==
    /\ pc = "done"
    /\ EventTimes(7, 37) # <<>>
    /\ EventTimes(8, 37) # <<>>
    /\ \E i \in 1..(Len(feed.script) - 2) :
          /\ feed.script[i][1] = 7
          /\ feed.script[i + 1][1] = 8
          /\ feed.script[i + 2][1] = 7

\* the last row of bus b that was no duplicate was an outlier: the bus has a
\* registered position off the route and no registered stop
LeftOnOutlier(b) ==
    /\ lastRegBusStop[b] = {}
    /\ \E a \in lastRegBusPosition[b] : OffRoute(a.lat, a.lng)

(* C17: when the last row of a bus that was no duplicate was an outlier,   *)
(* the end-of-file loop records no event of that bus from the trip built   *)
(* before the outlier, however long the trip and whatever its last stop.   *)
C17_OutlierDestroysTrip ==
    [][ (AtOpenTrip /\ LeftOnOutlier(Head(todo))) => rawHeadway' = rawHeadway ]_vars

\* the row is the registered position of its bus
Registered(row) == lastRegBusPosition[row.busID] = {Avl(row)}

\* the row leaves the registered position and stop and the trip of every
\* other bus as they were
OthersKept(row) ==
    \A o \in (DOMAIN trips) \ {row.busID} :
        /\ lastRegBusPosition'[o] = lastRegBusPosition[o]
        /\ lastRegBusStop'[o] = lastRegBusStop[o]
        /\ trips'[o] = trips[o]

(* C18: a tracked row for which no stale-gap condition holds, whose bus has *)
(* a trip of at most 2 samples and whose matched stop fell back to stop 1,  *)
(* replaces the trip by one sample with the time and the position of the   *)
(* previous registered position and stop 1; stop 1 becomes the registered   *)
(* stop, the registered position stays the previous one (the row is not     *)
(* registered) and no event is added.                                       *)
C18_WraparoundReseed ==
    [][ (ReadsRow /\ Tracking(RowRead) /\ ~StaleCase(RowRead) /\ WrapCase(RowRead))
            => LET row  == RowRead
                   b    == RowRead.busID
                   prev == The(lastRegBusPosition[RowRead.busID])
               IN  /\ trips'[b].x = <<prev.date>>
                   /\ trips'[b].y = <<1>>
                   /\ trips'[b].p = << <<prev.lat, prev.lng>> >>
                   /\ \E stop \in lastRegBusStop'[b] : stop.id = 1
                   /\ lastRegBusPosition'[b] = {prev}
                   /\ prev # Avl(row)
                   /\ rawHeadway' = rawHeadway
                   /\ pc' = "scan" ]_vars

\* an accepted row on the route was read and is not the registered position
\* of its bus, whose registered stop is stop 1 and whose trip is one sample
\* at the time and place of the registered position, before the row
C18_Witness ==
    /\ pc = "scan"
    /\ avlData # {}
    /\ LET row == The(avlData)
           b   == The(avlData).busID
       IN  /\ Accepted(row)
           /\ ~OffRoute(row.lat, row.lng)
           /\ ~SamePlace(row)
           /\ \E stop \in lastRegBusStop[b] : stop.id = 1
           /\ MatchedStop(row).id = 1
           /\ Len(trips[b].x) = 1
           /\ trips[b].x[1] = The(lastRegBusPosition[b]).date
           /\ TLess(trips[b].x[1], row.date)

(* C19: a tracked row for which no stale-gap condition holds and whose      *)
(* matched stop has a lower id than the registered stop, and an id above 2  *)
(* (so that it is neither a wraparound nor the end of a trip), becomes the  *)
(* registered position and changes nothing else: the registered stop and    *)
(* the trip stay and no event is added.                                     *)
C19_BackwardJump ==
    [][ (/\ ReadsRow /\ Tracking(RowRead) /\ ~StaleCase(RowRead)
         /\ MatchedStop(RowRead).id < The(lastRegBusStop[RowRead.busID]).id
         /\ MatchedStop(RowRead).id > 2)
            => /\ lastRegBusPosition'[RowRead.busID] = {Avl(RowRead)}
               /\ OthersKept(RowRead)
               /\ UNCHANGED <<lastRegBusStop, trips, tripKeys, rawHeadway>>
               /\ pc' = "scan" ]_vars

\* the registered position of a bus is a row matched to a stop above 2 and
\* below the registered stop of the bus, whose trip is open
C19_Witness ==
    /\ pc = "scan"
    /\ avlData # {}
    /\ LET row == The(avlData)
       IN  /\ Accepted(row)
           /\ Registered(row)
           /\ MatchedStop(row).id > 2
           /\ \E stop \in lastRegBusStop[row.busID] : stop.id > MatchedStop(row).id
           /\ Len(trips[row.busID].x) >= 5
           /\ Last(trips[row.busID].y) > MatchedStop(row).id

(* C20: a tracked row for which no stale-gap condition holds, whose bus has *)
(* stop 1 registered and whose matched stop is stop 35 or 36, becomes the   *)
(* registered position and changes nothing else: stop 1 stays registered,   *)
(* no sample of the stops between is appended to the trip and no event is   *)
(* added.                                                                   *)
C20_CurvatureArtifact ==
    [][ (/\ ReadsRow /\ Tracking(RowRead) /\ ~StaleCase(RowRead)
         /\ The(lastRegBusStop[RowRead.busID]).id = 1
         /\ MatchedStop(RowRead).id \in {35, 36})
            => /\ lastRegBusPosition'[RowRead.busID] = {Avl(RowRead)}
               /\ OthersKept(RowRead)
               /\ UNCHANGED <<lastRegBusStop, trips, tripKeys, rawHeadway>>
               /\ pc' = "scan" ]_vars

\* the registered position of a bus is a row matched to stop 35 or 36 while
\* stop 1 is its registered stop and its trip holds the sample of stop 1 only
C20_Witness ==
    /\ pc = "scan"
    /\ avlData # {}
    /\ LET row == The(avlData)
       IN  /\ Accepted(row)
           /\ Registered(row)
           /\ MatchedStop(row).id \in {35, 36}
           /\ \E stop \in lastRegBusStop[row.busID] : stop.id = 1
           /\ trips[row.busID].y = <<1>>

\* the row is tracked, no stale-gap condition holds of it, its matched stop
\* is not below the registered stop and it is no curvature artifact
ForwardCase(row) ==
    /\ Tracking(row)
    /\ ~StaleCase(row)
    /\ MatchedStop(row).id >= The(lastRegBusStop[row.busID]).id
    /\ ~(/\ The(lastRegBusStop[row.busID]).id = 1
          /\ MatchedStop(row).id \in {35, 36})

\* the list r is the list q with n more elements after it
Extends(q, r, n) == Len(r) = Len(q) + n /\ SubSeq(r, 1, Len(q)) = q

(* C21: a tracked row that takes none of the reset, backward-jump and       *)
(* curvature branches and whose matched stop is k >= 0 stops past the       *)
(* registered stop appends exactly k samples to the trip, of the stops      *)
(* after the registered one up to the matched one in that order, and        *)
(* rewrites no sample (for k = 0 the trip is unchanged); the row becomes    *)
(* the registered position, the matched stop the registered stop, and no    *)
(* event is added.                                                          *)
C21_ForwardProgress ==
    [][ (ReadsRow /\ ForwardCase(RowRead))
            => LET row == RowRead
                   b   == RowRead.busID
                   old == The(lastRegBusStop[RowRead.busID]).id
                   k   == MatchedStop(RowRead).id - The(lastRegBusStop[RowRead.busID]).id
               IN  /\ Extends(trips[b].x, trips'[b].x, k)
                   /\ Extends(trips[b].y, trips'[b].y, k)
                   /\ Extends(trips[b].p, trips'[b].p, k)
                   /\ \A i \in 1..k : trips'[b].y[Len(trips[b].y) + i] = old + i
                   /\ lastRegBusPosition'[b] = {Avl(row)}
                   /\ lastRegBusStop'[b] = {MatchedStop(row)}
                   /\ rawHeadway' = rawHeadway ]_vars

(* C22: the sample forward progress appends for a stop s has the pass time  *)
(* prevTime + (s.dist - prevDistance) / velocity, to the microsecond, where *)
(* velocity is (distance - prevDistance) over the seconds between the       *)
(* previous registered position and the row, and the pass time prevTime     *)
(* when the velocity is 0; so with a positive velocity a stop at             *)
(* prevDistance has the time of the previous position, a stop at the row's  *)
(* distance the time of the row, and a stop between the two a time between  *)
(* the two.                                                                 *)
C22_InterpolatedPassTime ==
    [][ (ReadsRow /\ ForwardCase(RowRead))
            => LET row  == RowRead
                   b    == RowRead.busID
                   prev == The(lastRegBusPosition[RowRead.busID])
                   old  == The(lastRegBusStop[RowRead.busID]).id
                   n    == Len(trips[RowRead.busID].x)
                   dD   == RowRead.lat - The(lastRegBusPosition[RowRead.busID]).lat
                   dT   == TSub(RowRead.date, The(lastRegBusPosition[RowRead.busID]).date)
               IN  \A i \in 1..(Len(trips'[b].x) - n) :
                      LET sd == busStops[old + i].dist - prev.lat
                          t  == trips'[b].x[n + i]
                      IN  /\ dD = 0 => t = prev.date
                          /\ dD # 0 => \E velocity \in {Velocity(dD, dT)} :
                                          t = TAdd(prev.date, TravelTime(sd, velocity))
                          /\ (dD > 0 /\ sd = 0) => t = prev.date
                          /\ (dD > 0 /\ sd = dD) => t = row.date
                          /\ (dD > 0 /\ 0 <= sd /\ sd <= dD)
                                => TLeq(prev.date, t) /\ TLeq(t, row.date) ]_vars

\* the last row read was registered 10 m short of stop 2 and the row before
\* it behind: the sample of the matched stop, the last of the trip, is later
\* than the row by a fraction of a second
C22_Witness ==
    /\ pc = "scan"
    /\ avlData # {}
    /\ LET row == The(avlData)
           tr  == trips[The(avlData).busID]
       IN  /\ Registered(row)
           /\ Len(tr.x) >= 2
           /\ Last(tr.y) = MatchedStop(row).id
           /\ TLess(tr.x[1], Last(tr.x))
           /\ Last(tr.x)[2] # 0
           /\ TLess(row.date, Last(tr.x))

\* the position is within the snap tolerance of the stop: 100 m of a
\* terminal, 15 m of any other stop
Snaps(stop, lat, lng) ==
    Haversine(<<lat, lng>>, <<stop.lat, stop.lng>>, IF stop.term THEN TermRadius ELSE StopRadius)

\* the stop of the matching rule
RuleStop(lat, lng, travDistance) ==
    LET near  == {i \in DOMAIN busStops : Snaps(busStops[i], lat, lng)}
        below == {i \in DOMAIN busStops : busStops[i].dist <= travDistance}
    IN  IF near # {} THEN busStops[CHOOSE i \in near : \A j \in near : i <= j]
        ELSE IF below # {} THEN busStops[CHOOSE i \in below : \A j \in below : j <= i]
        ELSE busStops[1]

(* C23: the stop a position is matched to is the first stop of the table,   *)
(* in id order, within its snap tolerance of the position (100 m for a      *)
(* terminal, 15 m for any other stop), even if a later stop is closer or    *)
(* has a travelled distance not above that of the position; if no stop is   *)
(* within its tolerance it is the stop of the greatest id whose travelled   *)
(* distance is not above that of the position, and stop 1 if there is none. *)
C23_StopMatching ==
    rowsRead = 1 =>
        LET row == The(avlData)
        IN  /\ getLastBusStop(row.lat, row.lng, row.lat, busStops)[1]
                  = RuleStop(row.lat, row.lng, row.lat)
            /\ lastRegBusStop[row.busID] = {RuleStop(row.lat, row.lng, row.lat)}
            /\ trips[row.busID].y = <<RuleStop(row.lat, row.lng, row.lat).id>>

\* the row 10 m before the end of the loop was matched to stop 2, a terminal
\* that stands 100 m from it round the end of the loop, though stop 1 has a
\* travelled distance below the row's and stop 3 stands 10 m from the row
C23_Witness ==
    /\ rowsRead = 1
    /\ The(avlData).lat = RouteEndDist - 10
    /\ Len(busStops) = 3
    /\ ~busStops[1].term /\ busStops[1].lat = 500
    /\ busStops[2].term /\ busStops[2].lat = 90
    /\ busStops[3].lat = 0
    /\ \E stop \in lastRegBusStop[7] : stop.id = 2

\* bus b has a registered position, a trip that is not empty, and the stop
\* of the last sample of the trip is its registered stop
TripFollowsStop(b) ==
    /\ lastRegBusPosition[b] # {}
    /\ Len(trips[b].y) > 0
    /\ Len(trips[b].x) = Len(trips[b].y)
    /\ \A stop \in lastRegBusStop[b] : Last(trips[b].y) = stop.id

\* the end-of-file loop has not yet come to the trip of bus b
NotYetFlushed(b) ==
    \/ pc = "scan"
    \/ pc = "flush" /\ \E k \in 1..Len(todo) : todo[k] = b

(* C24 (as amended): in every state of the scan, and after it until the     *)
(* end-of-file loop comes to the trip of the bus, a bus that has a          *)
(* registered stop has a registered position and a trip that is not empty,  *)
(* and the stop of the last sample of the trip is the registered stop; so   *)
(* no branch of the scan reads the last sample of an empty trip.            *)
C24_TrackingInvariant ==
    \A b \in DOMAIN lastRegBusStop :
        (lastRegBusStop[b] # {} /\ NotYetFlushed(b)) => TripFollowsStop(b)

\* after three rows of the scan a bus has a registered stop beyond the first
\* and a trip of several samples
C24_Witness ==
    /\ pc = "scan"
    /\ rowsRead = 3
    /\ \E b \in DOMAIN lastRegBusStop :
          /\ lastRegBusStop[b] # {}
          /\ Len(trips[b].y) >= 2
          /\ The(lastRegBusStop[b]).id > 1

(* C24 (as stated): in every reachable state a bus that has a registered    *)
(* stop has a registered position and a trip that is not empty, and the     *)
(* stop of the last sample of the trip is the registered stop.              *)
C24_InEveryState ==
    \A b \in DOMAIN lastRegBusStop : lastRegBusStop[b] # {} => TripFollowsStop(b)

(* C25: the events a single step adds for the trip of one bus (at a trip    *)
(* completion or at the end of the file) name no stop twice; the sample of  *)
(* the route end that a trip completion appends is the only event of that   *)
(* step at its stop.                                                        *)
C25_OneEventPerStop ==
    [][ \A s \in DOMAIN rawHeadway : Len(Added(s)) <= 1 ]_vars

\* the matched stop of a tracked row is stop 1 or 2, below the registered stop
EndsTrip(row) ==
    /\ MatchedStop(row).id < The(lastRegBusStop[row.busID]).id
    /\ MatchedStop(row).id <= 2

(* C26: the stale-gap conditions are tested before the wraparound, the end  *)
(* of a trip, the backward jump and the curvature: a tracked row for which  *)
(* a stale-gap condition holds and whose matched stop is stop 1 or 2, below *)
(* the registered stop, takes the stale-gap reset (the row becomes the      *)
(* registered position, its stop the registered stop and the last sample of *)
(* the trip, which is not emptied) and no event is added at that row.       *)
C26_StaleBeforeCompletion ==
    [][ (/\ ReadsRow /\ Tracking(RowRead) /\ StaleCase(RowRead) /\ EndsTrip(RowRead))
            => LET b == RowRead.busID
               IN  /\ rawHeadway' = rawHeadway
                   /\ lastRegBusPosition'[b] = {Avl(RowRead)}
                   /\ lastRegBusStop'[b] = {MatchedStop(RowRead)}
                   /\ Len(trips'[b].y) = Len(trips[b].y)
                   /\ Len(trips'[b].y) > 0
                   /\ Last(trips'[b].x) = RowRead.date
                   /\ Last(trips'[b].y) = MatchedStop(RowRead).id
                   /\ OthersKept(RowRead)
                   /\ pc' = "scan" ]_vars

\* the third row of a bus whose trip held stops 34 and 35 is matched to stop
\* 2 without having advanced: its stop is registered and is the last sample
\* of the trip, which still holds stop 34, and there is no event
C26_Witness ==
    /\ pc = "scan"
    /\ rowsRead = 3
    /\ \E b \in DOMAIN trips :
          /\ trips[b].y = <<34, 2>>
          /\ lastRegBusStop[b] = {busStops[2]}
          /\ lastRegBusPosition[b] = {Avl(The(avlData))}
    /\ NumEvents(rawHeadway) = 0

=============================================================================
